---- MODULE Spec2Model ----
(***************************************************************************)
(* HR_Visual.py: a Streamlit script that loads a wide workforce table,     *)
(* melts it to a long table, filters it by the sidebar selections and      *)
(* aggregates the filtered rows into views.  One run of the script is one  *)
(* behaviour; pc is the position of the run in the script.  The calls that *)
(* only draw (streamlit, plotly) are taken to return; what they draw is    *)
(* not part of the state.                                                  *)
(*                                                                         *)
(* Strings that the script takes apart (column names) are sequences of     *)
(* tokens; the separators " ", "_" and "-" are tokens of their own.        *)
(* A cell of the table is a record [k, v]: k = "num" a number v,           *)
(* k = "digits" a string of digits that reads as v, k = "text" a string    *)
(* that is no number, k = "na" a missing value.                            *)
(***************************************************************************)
EXTENDS Integers, Sequences, FiniteSets

VARIABLES
  pc,                 \* position of the run in the script
  data,               \* the wide table: [columns, rows]
  worker_cols,        \* measure columns (line 34)
  id_cols,            \* identifier columns (line 35)
  long_data,          \* the long table: a set of rows, each with its index label
  use_case, view_level, show_percentage,
  selected_states, selected_districts,
  filtered_data,
  worker_type, area, gender,
  selected_clusters,
  value_col,
  industry_df, geo_df, pivot_df,
  usecase_rows,       \* the rows the chosen use case groups: filtered_data, the
                      \* frame of lines 308-311, or ur_data
  usecase_df,         \* invest_df, skill_df, gender_df, dep_df or ur_df
  risk_df,            \* dependency rows above the threshold (line 340)
  download            \* the rows handed to the download button (line 383)

vars == <<pc, data, worker_cols, id_cols, long_data, use_case, view_level,
          show_percentage, selected_states, selected_districts, filtered_data,
          worker_type, area, gender, selected_clusters, value_col,
          industry_df, geo_df, pivot_df, usecase_rows, usecase_df, risk_df,
          download>>

reshapeVars == <<data, worker_cols, id_cols, long_data>>
sidebarVars == <<use_case, view_level, show_percentage, selected_states,
                 selected_districts, worker_type, area, gender, selected_clusters>>
viewVars == <<value_col, industry_df, geo_df, pivot_df, usecase_rows, usecase_df,
              risk_df, download>>

----------------------------------------------------------------------------
\* Bounds of the model

\* rows of the wide table
MaxRows == 2

----------------------------------------------------------------------------
\* Values

NA == [k |-> "na", v |-> 0]
Num(n) == [k |-> "num", v |-> n]
Text == [k |-> "text", v |-> 0]

Range(f) == {f[i] : i \in DOMAIN f}
IndexIn(f, x) == CHOOSE i \in DOMAIN f : f[i] = x

\* a missing string (None / NaN in an object column)
NoneStr == <<"<NA>">>
\* a widget or table that the run has not reached
Unset == "unset"

\* str.strip(): leading and trailing blanks removed
RECURSIVE LStrip(_)
LStrip(s) == IF s # <<>> /\ Head(s) = " " THEN LStrip(Tail(s)) ELSE s

RECURSIVE RStrip(_)
RStrip(s) ==
  IF s # <<>> /\ s[Len(s)] = " " THEN RStrip(SubSeq(s, 1, Len(s) - 1)) ELSE s

Strip(s) == LStrip(RStrip(s))

\* str.replace(" ", "_")
ReplaceBlanks(s) == [i \in 1..Len(s) |-> IF s[i] = " " THEN "_" ELSE s[i]]

\* line 29: data.columns.str.strip().str.replace(" ", "_")
NormalizeName(s) == ReplaceBlanks(Strip(s))

\* str.startswith(prefix)
StartsWith(s, prefix) ==
  /\ Len(s) >= Len(prefix)
  /\ SubSeq(s, 1, Len(prefix)) = prefix

MainPrefix == <<"Main", "_", "Workers">>
MarginalPrefix == <<"Marginal", "_", "Workers">>

\* line 34: c.startswith(("Main_Workers", "Marginal_Workers"))
IsWorkerCol(c) == StartsWith(c, MainPrefix) \/ StartsWith(c, MarginalPrefix)

\* str.split("-"): the parts between the hyphens, empty parts kept
RECURSIVE SplitHyphen(_)
SplitHyphen(s) ==
  IF \A i \in 1..Len(s) : s[i] # "-"
    THEN <<s>>
    ELSE LET i == CHOOSE j \in 1..Len(s) :
                    s[j] = "-" /\ \A m \in 1..(j - 1) : s[m] # "-"
         IN <<SubSeq(s, 1, i - 1)>> \o SplitHyphen(SubSeq(s, i + 1, Len(s)))

\* column n of str.split("-", expand=True): None where the name has fewer parts
SplitPart(name, n) ==
  IF Len(SplitHyphen(name)) >= n THEN SplitHyphen(name)[n] ELSE NoneStr

\* lines 52-55: replace on the worker-class token; other tokens pass through
ReplaceWorkerType(t) ==
  IF t = MainPrefix THEN <<"Main">>
  ELSE IF t = MarginalPrefix THEN <<"Marginal">>
  ELSE t

\* ReplaceGender with the "Persons" entry of the mapping left out
ReplaceGenderNoPersons(t) ==
  IF t = <<"Males">> THEN <<"Male">>
  ELSE IF t = <<"Females">> THEN <<"Female">>
  ELSE t

\* lines 57-61: replace on the gender token; other tokens pass through
ReplaceGender(t) ==
  IF t = <<"Males">> THEN <<"Male">>
  ELSE IF t = <<"Females">> THEN <<"Female">>
  ELSE IF t = <<"Persons">> THEN <<"Total">>
  ELSE t

\* ToNumeric that keeps numbers only and parses no string
ToNumericNumbersOnly(c) == IF c.k = "num" THEN c ELSE NA

\* line 68: pd.to_numeric(errors="coerce"): a number stays, a string of digits
\* is parsed, anything else becomes NaN
ToNumeric(c) == IF c.k \in {"num", "digits"} THEN Num(c.v) ELSE NA

----------------------------------------------------------------------------
\* The wide table.  Its three leading columns State, District and
\* Industry_Category are fields of a row; data.columns names the other
\* columns and row.cells holds their values in the same order.

StateCol == <<"State">>
DistrictCol == <<"District">>
IndustryCol == <<"Industry", "_", "Category">>

NRows == Len(data.rows)

\* positions of data.columns whose name is a measure column
WorkerPositions == {p \in 1..Len(data.columns) : IsWorkerCol(data.columns[p])}

\* line 29
Normalize ==
  /\ pc = "normalize"
  /\ data' = [data EXCEPT !.columns =
                 [p \in 1..Len(data.columns) |-> NormalizeName(data.columns[p])]]
  /\ pc' = "classify"
  /\ UNCHANGED <<worker_cols, id_cols, long_data, sidebarVars, filtered_data, viewVars>>

\* lines 34-35
Classify ==
  /\ pc = "classify"
  /\ worker_cols' = SelectSeq(data.columns, IsWorkerCol)
  /\ id_cols' = <<StateCol, DistrictCol, IndustryCol>>
                   \o SelectSeq(data.columns, LAMBDA c : ~IsWorkerCol(c))
  /\ pc' = "melt"
  /\ UNCHANGED <<data, long_data, sidebarVars, filtered_data, viewVars>>

\* position in data.columns of the column named c
PositionOf(c) == CHOOSE p \in 1..Len(data.columns) : data.columns[p] = c

\* the identifier columns after the three leading ones (id_cols, line 35)
OtherIdCols == Range(SubSeq(id_cols, 4, Len(id_cols)))

\* lines 40-45: one row per (row of data, measure column), the measure columns
\* stacked one after the other under a fresh 0-based index; every row carries
\* the identifier columns (id_vars)
MeltRows ==
  {[index |-> (k - 1) * NRows + (i - 1),
    State |-> data.rows[i].State,
    District |-> data.rows[i].District,
    Industry_Category |-> data.rows[i].Industry_Category,
    Other_Ids |-> [c \in OtherIdCols |-> data.rows[i].cells[PositionOf(c)]],
    Variable |-> worker_cols[k],
    Count |-> data.rows[i].cells[PositionOf(worker_cols[k])]]
     : k \in 1..Len(worker_cols), i \in 1..NRows}

Melt ==
  /\ pc = "melt"
  /\ long_data' = MeltRows
  /\ pc' = "split"
  /\ UNCHANGED <<data, worker_cols, id_cols, sidebarVars, filtered_data, viewVars>>

\* number of columns of str.split("-", expand=True): the most parts of any name
SplitWidth ==
  IF long_data = {} THEN 0
  ELSE LET n(r) == Len(SplitHyphen(r.Variable))
       IN n(CHOOSE r \in long_data : \A q \in long_data : n(q) <= n(r))

\* lines 52-63 applied to one row
SplitRow(r) ==
  [index |-> r.index,
   State |-> r.State,
   District |-> r.District,
   Industry_Category |-> r.Industry_Category,
   Other_Ids |-> r.Other_Ids,
   Worker_Type |-> ReplaceWorkerType(SplitPart(r.Variable, 1)),
   Area |-> SplitPart(r.Variable, 2),
   Gender |-> ReplaceGender(SplitPart(r.Variable, 3)),
   Count |-> r.Count]

\* lines 50-63; split_cols[1] or split_cols[2] raises KeyError when no name
\* has that many parts
SplitMetadata ==
  /\ pc = "split"
  /\ IF SplitWidth < 3
       THEN /\ pc' = "crashed"
            /\ UNCHANGED long_data
       ELSE /\ long_data' = {SplitRow(r) : r \in long_data}
            /\ pc' = "coerce"
  /\ UNCHANGED <<data, worker_cols, id_cols, sidebarVars, filtered_data, viewVars>>

\* line 68
Coerce ==
  /\ pc = "coerce"
  /\ long_data' = {[r EXCEPT !.Count = ToNumeric(r.Count)] : r \in long_data}
  /\ pc' = "dropna"
  /\ UNCHANGED <<data, worker_cols, id_cols, sidebarVars, filtered_data, viewVars>>

\* line 69
DropNa ==
  /\ pc = "dropna"
  /\ long_data' = {r \in long_data : r.Count.k # "na"}
  /\ pc' = "sidebar"
  /\ UNCHANGED <<data, worker_cols, id_cols, sidebarVars, filtered_data, viewVars>>

----------------------------------------------------------------------------
\* Sidebar and filter chain

UseCases == {"General Workforce Overview", "Industrial Investment Planning",
             "Skill Gap Analysis", "Gender & Inclusion Analysis",
             "Industry Dependency Risk", "Urbanization & Migration"}
ViewLevels == {"District-wise", "State-wise"}

\* selected_districts of the State-wise level (line 114)
NoneSel == [none |-> TRUE, items |-> {}]
ListSel(S) == [none |-> FALSE, items |-> S]

\* truth value of a selection in "if selected_districts:": None and the empty
\* list are both false
Truthy(sel) == ~sel.none /\ sel.items # {}

\* sorted() of the distinct values of a column raises TypeError when a missing
\* value has to be compared with a string
Sortable(S) == ~(NoneStr \in S /\ Cardinality(S) > 1)

\* Series.isin(values)
IsIn(x, values) == x \in values

\* lines 76-89
Sidebar ==
  /\ pc = "sidebar"
  /\ use_case' \in UseCases
  /\ view_level' \in ViewLevels
  /\ show_percentage' \in BOOLEAN
  /\ pc' = "states"
  /\ UNCHANGED <<reshapeVars, selected_states, selected_districts, worker_type, area,
                 gender, selected_clusters, filtered_data, viewVars>>

\* lines 94-101: any subset of the states of the long table may be selected
SelectStates ==
  /\ pc = "states"
  /\ IF Sortable({r.State : r \in long_data})
       THEN /\ selected_states' \in SUBSET {r.State : r \in long_data}
            /\ pc' = "districts"
       ELSE /\ pc' = "crashed"
            /\ UNCHANGED selected_states
  /\ UNCHANGED <<reshapeVars, use_case, view_level, show_percentage, selected_districts,
                 worker_type, area, gender, selected_clusters, filtered_data, viewVars>>

\* lines 104-107: distinct non-null districts of the selected states
DistrictOptions ==
  {r.District : r \in {q \in long_data : IsIn(q.State, selected_states)}} \ {NoneStr}

\* lines 103-114
SelectDistricts ==
  /\ pc = "districts"
  /\ IF view_level = "District-wise"
       THEN \E S \in SUBSET DistrictOptions : selected_districts' = ListSel(S)
       ELSE selected_districts' = NoneSel
  /\ pc' = "state_filter"
  /\ UNCHANGED <<reshapeVars, use_case, view_level, show_percentage, selected_states,
                 worker_type, area, gender, selected_clusters, filtered_data, viewVars>>

\* line 119
StateFilter ==
  /\ pc = "state_filter"
  /\ filtered_data' = {r \in long_data : IsIn(r.State, selected_states)}
  /\ pc' = "district_filter"
  /\ UNCHANGED <<reshapeVars, sidebarVars, viewVars>>

\* DistrictFilter that takes the rows of the selected districts from the long
\* table, not from the rows the state filter kept
DistrictFilterFromLong ==
  /\ pc = "district_filter"
  /\ filtered_data' =
       IF Truthy(selected_districts)
         THEN {r \in long_data : IsIn(r.District, selected_districts.items)}
         ELSE filtered_data
  /\ pc' = "empty_check"
  /\ UNCHANGED <<reshapeVars, sidebarVars, viewVars>>

\* lines 121-124
DistrictFilter ==
  /\ pc = "district_filter"
  /\ filtered_data' =
       IF Truthy(selected_districts)
         THEN {r \in filtered_data : IsIn(r.District, selected_districts.items)}
         ELSE filtered_data
  /\ pc' = "empty_check"
  /\ UNCHANGED <<reshapeVars, sidebarVars, viewVars>>

\* EmptyCheck that warns and goes on: st.stop() left out
EmptyCheckNoStop ==
  /\ pc = "empty_check"
  /\ pc' = "worker_filters"
  /\ UNCHANGED <<reshapeVars, sidebarVars, filtered_data, viewVars>>

\* lines 126-128: st.stop() ends the run
EmptyCheck ==
  /\ pc = "empty_check"
  /\ pc' = IF filtered_data = {} THEN "stopped" ELSE "worker_filters"
  /\ UNCHANGED <<reshapeVars, sidebarVars, filtered_data, viewVars>>

\* lines 133-147: each selectbox returns one of the values present
WorkerFilters ==
  /\ pc = "worker_filters"
  /\ IF /\ Sortable({r.Worker_Type : r \in filtered_data})
        /\ Sortable({r.Area : r \in filtered_data})
        /\ Sortable({r.Gender : r \in filtered_data})
       THEN /\ worker_type' \in {r.Worker_Type : r \in filtered_data}
            /\ area' \in {r.Area : r \in filtered_data}
            /\ gender' \in {r.Gender : r \in filtered_data}
            /\ filtered_data' = {r \in filtered_data :
                                   /\ r.Worker_Type = worker_type'
                                   /\ r.Area = area'
                                   /\ r.Gender = gender'}
            /\ pc' = "industry_filter"
       ELSE /\ pc' = "crashed"
            /\ UNCHANGED <<worker_type, area, gender, filtered_data>>
  /\ UNCHANGED <<reshapeVars, use_case, view_level, show_percentage, selected_states,
                 selected_districts, selected_clusters, viewVars>>

\* lines 152-160
IndustryFilter ==
  /\ pc = "industry_filter"
  /\ IF Sortable({r.Industry_Category : r \in filtered_data})
       THEN /\ selected_clusters' \in SUBSET {r.Industry_Category : r \in filtered_data}
            /\ filtered_data' = {r \in filtered_data :
                                   IsIn(r.Industry_Category, selected_clusters')}
            /\ pc' = "percentage"
       ELSE /\ pc' = "crashed"
            /\ UNCHANGED <<selected_clusters, filtered_data>>
  /\ UNCHANGED <<reshapeVars, use_case, view_level, show_percentage, selected_states,
                 selected_districts, worker_type, area, gender, viewVars>>

----------------------------------------------------------------------------
\* Arithmetic.  A quotient is kept exact as [num, den]; den = 0 is the result
\* of a division by zero (NaN for 0/0, inf otherwise).

Rat(n, d) == [num |-> n, den |-> d]
IsNaN(x) == x.den = 0 /\ x.num = 0
RatAdd(x, y) ==
  IF x.den = y.den THEN Rat(x.num + y.num, x.den)
  ELSE Rat(x.num * y.den + y.num * x.den, x.den * y.den)
RatEq(x, y) == x.den # 0 /\ y.den # 0 /\ x.num * y.den = y.num * x.den
RatGreater(x, y) == x.den # 0 /\ y.den # 0 /\ x.num * y.den > y.num * x.den

\* Series.sum() of the Count column
RECURSIVE SumCount(_)
SumCount(rows) ==
  IF rows = {} THEN 0
  ELSE LET r == CHOOSE q \in rows : TRUE
       IN r.Count.v + SumCount(rows \ {r})

\* Percent without the factor 100
PercentNoScale(count, total) == Rat(count, total)

\* line 167: (Count / total) * 100
Percent(count, total) == Rat(count * 100, total)

\* the row with the Value column of line 167
WithValue(r, total) ==
  [index |-> r.index, State |-> r.State, District |-> r.District,
   Industry_Category |-> r.Industry_Category, Other_Ids |-> r.Other_Ids,
   Worker_Type |-> r.Worker_Type, Area |-> r.Area, Gender |-> r.Gender,
   Count |-> r.Count,
   Value |-> Percent(r.Count.v, total)]

\* lines 165-172
Percentage ==
  /\ pc = "percentage"
  /\ IF show_percentage
       THEN /\ filtered_data' =
                 {WithValue(r, SumCount(filtered_data)) : r \in filtered_data}
            /\ value_col' = "Value"
       ELSE /\ value_col' = "Count"
            /\ UNCHANGED filtered_data
  /\ pc' = "core_views"
  /\ UNCHANGED <<reshapeVars, sidebarVars, industry_df, geo_df, pivot_df,
                 usecase_rows, usecase_df, risk_df, download>>

\* the column a core view sums
ValueOf(r) == IF value_col = "Value" THEN r.Value ELSE Rat(r.Count.v, 1)

\* Series.sum() of the value column: NaN entries are skipped
RECURSIVE SumValue(_)
SumValue(rows) ==
  IF rows = {} THEN Rat(0, 1)
  ELSE LET r == CHOOSE q \in rows : TRUE
           rest == SumValue(rows \ {r})
       IN IF IsNaN(ValueOf(r)) THEN rest ELSE RatAdd(ValueOf(r), rest)

\* line 207
GeoOf(r) == IF view_level = "District-wise" THEN r.District ELSE r.State

\* lines 230-236: one cell per (industry, geography) present, 0 where no row
PivotTable(rows) ==
  LET inds == {r.Industry_Category : r \in rows} \ {NoneStr}
      geos == {GeoOf(r) : r \in rows} \ {NoneStr}
  IN [c \in inds \X geos |->
        SumValue({r \in rows : r.Industry_Category = c[1] /\ GeoOf(r) = c[2]})]

\* IndustryTable that takes the value of one row of each group, not their sum
IndustryTableFirst(rows) ==
  {[key |-> k, value |-> ValueOf(CHOOSE r \in rows : r.Industry_Category = k)]
     : k \in {r.Industry_Category : r \in rows} \ {NoneStr}}

\* lines 190-195: groupby("Industry_Category")[value_col].sum(); rows with a
\* missing key are left out
IndustryTable(rows) ==
  {[key |-> k, value |-> SumValue({r \in rows : r.Industry_Category = k})]
     : k \in {r.Industry_Category : r \in rows} \ {NoneStr}}

\* lines 209-214: groupby(geo_col)[value_col].sum()
GeoTable(rows) ==
  {[key |-> k, value |-> SumValue({r \in rows : GeoOf(r) = k})]
     : k \in {GeoOf(r) : r \in rows} \ {NoneStr}}

\* lines 177-254; the order sort_values gives the rows is not recorded
CoreViews ==
  /\ pc = "core_views"
  /\ industry_df' = IndustryTable(filtered_data)
  /\ geo_df' = GeoTable(filtered_data)
  /\ pivot_df' = PivotTable(filtered_data)
  /\ pc' = "use_case"
  /\ UNCHANGED <<reshapeVars, sidebarVars, filtered_data, value_col,
                 usecase_rows, usecase_df, risk_df, download>>

\* Series.nunique(): missing values are not counted
NUnique(S) == Cardinality(S \ {NoneStr})

\* InvestTable with one row for every district of the long table, not only
\* for the districts of the rows it is given
InvestTableAllDistricts(rows) ==
  {[District |-> d,
    Total_Workers |-> SumCount({r \in rows : r.District = d}),
    Industry_Count |-> NUnique({r.Industry_Category : r \in {q \in rows : q.District = d}}),
    Investment_Score |->
      Rat(SumCount({r \in rows : r.District = d}),
          NUnique({r.Industry_Category : r \in {q \in rows : q.District = d}}))]
     : d \in {r.District : r \in long_data} \ {NoneStr}}

\* lines 264-275
InvestTable(rows) ==
  {[District |-> d,
    Total_Workers |-> SumCount({r \in rows : r.District = d}),
    Industry_Count |-> NUnique({r.Industry_Category : r \in {q \in rows : q.District = d}}),
    Investment_Score |->
      Rat(SumCount({r \in rows : r.District = d}),
          NUnique({r.Industry_Category : r \in {q \in rows : q.District = d}}))]
     : d \in {r.District : r \in rows} \ {NoneStr}}

\* lines 261-284
Investment ==
  /\ pc = "use_case"
  /\ use_case = "Industrial Investment Planning"
  /\ usecase_rows' = filtered_data
  /\ usecase_df' = InvestTable(filtered_data)
  /\ pc' = "download"
  /\ UNCHANGED <<reshapeVars, sidebarVars, filtered_data, value_col, industry_df,
                 geo_df, pivot_df, risk_df, download>>

\* groupby(["District", "Industry_Category"])["Count"].sum()
DistrictIndustryTable(rows) ==
  {[District |-> k[1], Industry_Category |-> k[2],
    Count |-> SumCount({r \in rows : r.District = k[1] /\ r.Industry_Category = k[2]})]
     : k \in {<<r.District, r.Industry_Category>> :
                r \in {q \in rows : q.District # NoneStr /\ q.Industry_Category # NoneStr}}}

\* lines 287-301
SkillGap ==
  /\ pc = "use_case"
  /\ use_case = "Skill Gap Analysis"
  /\ usecase_rows' = filtered_data
  /\ usecase_df' = DistrictIndustryTable(filtered_data)
  /\ pc' = "download"
  /\ UNCHANGED <<reshapeVars, sidebarVars, filtered_data, value_col, industry_df,
                 geo_df, pivot_df, risk_df, download>>

\* lines 308-311: the rows the gender chart is aggregated from
GenderRows ==
  {r \in long_data : IsIn(r.State, selected_states) /\ r.Worker_Type = worker_type}

\* lines 312-315
GenderTable(rows) ==
  {[Industry_Category |-> k[1], Gender |-> k[2],
    Count |-> SumCount({r \in rows : r.Industry_Category = k[1] /\ r.Gender = k[2]})]
     : k \in {<<r.Industry_Category, r.Gender>> :
                r \in {q \in rows : q.Industry_Category # NoneStr /\ q.Gender # NoneStr}}}

\* lines 304-325
GenderInclusion ==
  /\ pc = "use_case"
  /\ use_case = "Gender & Inclusion Analysis"
  /\ usecase_rows' = GenderRows
  /\ usecase_df' = GenderTable(GenderRows)
  /\ pc' = "download"
  /\ UNCHANGED <<reshapeVars, sidebarVars, filtered_data, value_col, industry_df,
                 geo_df, pivot_df, risk_df, download>>

\* Count column of the rows of table t of one district, summed (x.sum())
RECURSIVE DistrictTotal(_, _)
DistrictTotal(t, d) ==
  IF \A g \in t : g.District # d THEN 0
  ELSE LET g == CHOOSE h \in t : h.District = d
       IN g.Count + DistrictTotal(t \ {g}, d)

\* lines 331-338: Share = x / x.sum() within each District
DepTable(rows) ==
  LET t == DistrictIndustryTable(rows)
  IN {[District |-> g.District, Industry_Category |-> g.Industry_Category,
       Count |-> g.Count, Share |-> Rat(g.Count, DistrictTotal(t, g.District))]
        : g \in t}

\* the threshold of line 340, 0.6
Threshold == Rat(6, 10)

\* RiskRows with >= in place of >
RiskRowsAtLeast(dep) ==
  {g \in dep : g.Share.den # 0 /\ g.Share.num * Threshold.den >= Threshold.num * g.Share.den}

\* line 340
RiskRows(dep) == {g \in dep : RatGreater(g.Share, Threshold)}

\* lines 328-347
DependencyRisk ==
  /\ pc = "use_case"
  /\ use_case = "Industry Dependency Risk"
  /\ usecase_rows' = filtered_data
  /\ usecase_df' = DepTable(filtered_data)
  /\ risk_df' = RiskRows(DepTable(filtered_data))
  /\ pc' = "download"
  /\ UNCHANGED <<reshapeVars, sidebarVars, filtered_data, value_col, industry_df,
                 geo_df, pivot_df, download>>

\* lines 354-362
UrData ==
  LET sel == {r \in long_data :
                /\ IsIn(r.State, selected_states)
                /\ IsIn(r.Industry_Category, selected_clusters)
                /\ r.Worker_Type = worker_type
                /\ r.Gender = gender}
  IN IF Truthy(selected_districts)
       THEN {r \in sel : IsIn(r.District, selected_districts.items)}
       ELSE sel

\* lines 364-368
AreaTable(rows) ==
  {[Area |-> a, Count |-> SumCount({r \in rows : r.Area = a})]
     : a \in {r.Area : r \in rows} \ {NoneStr}}

\* lines 350-376
Urbanization ==
  /\ pc = "use_case"
  /\ use_case = "Urbanization & Migration"
  /\ usecase_rows' = UrData
  /\ usecase_df' = AreaTable(UrData)
  /\ pc' = "download"
  /\ UNCHANGED <<reshapeVars, sidebarVars, filtered_data, value_col, industry_df,
                 geo_df, pivot_df, risk_df, download>>

\* the general overview shows no use-case module
GeneralOverview ==
  /\ pc = "use_case"
  /\ use_case = "General Workforce Overview"
  /\ pc' = "download"
  /\ UNCHANGED <<reshapeVars, sidebarVars, filtered_data, viewVars>>

\* lines 381-413: the download button gets the filtered rows, then the
\* recommendation is written and the run ends
Download ==
  /\ pc = "download"
  /\ download' = filtered_data
  /\ pc' = "done"
  /\ UNCHANGED <<reshapeVars, sidebarVars, filtered_data, value_col, industry_df,
                 geo_df, pivot_df, usecase_rows, usecase_df, risk_df>>

----------------------------------------------------------------------------
\* Input tables

Tamilnadu == <<"Tamilnadu">>
Kerala == <<"Kerala">>
Chennai == <<"Chennai">>
Salem == <<"Salem">>
Textiles == <<"Textiles">>
Mining == <<"Mining">>

\* the two measure columns of the tables of the whole run, named as the file
\* names them, before line 29
PipelineColumns ==
  <<<<"Main", " ", "Workers", "-", "Rural", "-", "Males">>,
    <<" ", "Marginal", " ", "Workers", "-", "Urban", "-", "Females">>>>

StateSeq == <<Tamilnadu, Kerala>>
DistrictSeq == <<Chennai, Salem, NoneStr>>
IndustrySeq == <<Textiles, Mining>>
CountSeq == <<0, 2, 3>>

\* rows that differ in geography
GeoRows ==
  {[State |-> st, District |-> d, Industry_Category |-> ic,
    cells |-> <<Num(2), Num(1)>>]
     : st \in Range(StateSeq), d \in Range(DistrictSeq), ic \in Range(IndustrySeq)}

\* rows of one state that differ in district, industry and count
AggRows ==
  {[State |-> Tamilnadu, District |-> d, Industry_Category |-> ic,
    cells |-> <<Num(n), Num(1)>>]
     : d \in {Chennai, Salem}, ic \in Range(IndustrySeq), n \in Range(CountSeq)}

\* a total order on the rows above, so that a table is drawn once
Rank(r) ==
  ((IndexIn(StateSeq, r.State) * 4 + IndexIn(DistrictSeq, r.District)) * 4
     + IndexIn(IndustrySeq, r.Industry_Category)) * 4 + r.cells[1].v

\* a table lists distinct rows of a pool in rising rank
Rising(t) == \A i, j \in DOMAIN t : i < j => Rank(t[i]) < Rank(t[j])

\* column names of the tables of the reshape alone, as the file names them
ReshapeColumnPool ==
  <<<<"Main", " ", "Workers", "-", "Rural", "-", "Males">>,
    <<" ", "Marginal", "_", "Workers", "-", "Urban", "-", "Females", " ">>,
    <<"Main", "_", "Workers", "-", "Total", "-", "Persons">>,
    <<"Main", "_", "Workers", "_", "Other", "-", "Rural", "-", "Males">>,
    <<"Marginal", "_", "Workers", "-", "Urban", "-", "Others">>,
    <<"Main", "_", "Workers", "-", "Total">>,
    <<"Total", " ", "Workers">>>>

\* one or two columns of the pool, in the pool's order
ReshapeColumnLists ==
  {<<ReshapeColumnPool[i]>> : i \in DOMAIN ReshapeColumnPool}
    \cup {<<ReshapeColumnPool[c[1]], ReshapeColumnPool[c[2]]>>
            : c \in {d \in (DOMAIN ReshapeColumnPool) \X (DOMAIN ReshapeColumnPool) :
                       d[1] < d[2]}}

\* a number, a string of digits, a missing value, a string that is no number
ReshapeCells == {Num(5), [k |-> "digits", v |-> 7], NA, Text}

ReshapeRows(cols) ==
  {[State |-> Tamilnadu, District |-> Chennai, Industry_Category |-> Textiles,
    cells |-> c] : c \in [1..Len(cols) -> ReshapeCells]}

InitRest ==
  /\ pc = "normalize"
  /\ worker_cols = <<>>
  /\ id_cols = <<>>
  /\ long_data = {}
  /\ use_case = Unset
  /\ view_level = Unset
  /\ show_percentage = FALSE
  /\ selected_states = {}
  /\ selected_districts = NoneSel
  /\ filtered_data = {}
  /\ worker_type = NoneStr
  /\ area = NoneStr
  /\ gender = NoneStr
  /\ selected_clusters = {}
  /\ value_col = Unset
  /\ industry_df = {}
  /\ geo_df = {}
  /\ pivot_df = <<>>
  /\ usecase_rows = {}
  /\ usecase_df = {}
  /\ risk_df = {}
  /\ download = {}

\* line 24: the table load_data() returns.  Every row has a State and an
\* Industry_Category; a District may be missing.
Init ==
  /\ \E n \in 1..MaxRows :
       \E t \in [1..n -> GeoRows] \cup [1..n -> AggRows] :
         /\ Rising(t)
         /\ data = [columns |-> PipelineColumns, rows |-> t]
  /\ InitRest

\* line 24 for the reshape alone: one or two columns of the pool, cells of
\* every kind
InitReshape ==
  /\ \E cols \in ReshapeColumnLists :
       \E n \in 1..MaxRows :
         \E t \in [1..n -> ReshapeRows(cols)] :
           data = [columns |-> cols, rows |-> t]
  /\ InitRest

\* lines 24-69
NextReshape == Normalize \/ Classify \/ Melt \/ SplitMetadata \/ Coerce \/ DropNa

Next ==
  \/ Normalize \/ Classify \/ Melt \/ SplitMetadata \/ Coerce \/ DropNa
  \/ Sidebar \/ SelectStates \/ SelectDistricts
  \/ StateFilter \/ DistrictFilter \/ EmptyCheck
  \/ WorkerFilters \/ IndustryFilter
  \/ Percentage \/ CoreViews
  \/ Investment \/ SkillGap \/ GenderInclusion \/ DependencyRisk \/ Urbanization
  \/ GeneralOverview
  \/ Download

Spec == Init /\ [][Next]_vars

SpecReshape == InitReshape /\ [][NextReshape]_vars

----------------------------------------------------------------------------
\* Properties of the reshape, lines 24-69 (specification SpecReshape)

\* cells of measure columns that hold no number: missing, or a string that
\* does not parse
UnparseableCells ==
  {c \in (1..NRows) \X WorkerPositions : data.rows[c[1]].cells[c[2]].k \in {"na", "text"}}

\* C1: when the reshape has completed, the long table has (rows of the input)
\* x (measure columns) rows, less one row for every cell of a measure column
\* that is missing or does not parse as a number.
C1_RowCount ==
  pc = "sidebar" =>
    Cardinality(long_data)
      = NRows * Cardinality(WorkerPositions) - Cardinality(UnparseableCells)

\* a completed reshape of two measure columns that dropped some cells and kept
\* others
C1_Witness ==
  /\ pc = "sidebar"
  /\ Len(worker_cols) = 2
  /\ UnparseableCells # {}
  /\ long_data # {}
  /\ \E r \in long_data : r.Count = Num(7)

\* the measure column a row of the long table was melted from
ColumnOf(r) == worker_cols[(r.index \div NRows) + 1]

\* the column is named <Main_Workers|Marginal_Workers>-<area>-<Males|Females|Persons>
WellFormedName(c) ==
  /\ Len(SplitHyphen(c)) >= 3
  /\ SplitHyphen(c)[1] \in {MainPrefix, MarginalPrefix}
  /\ SplitHyphen(c)[3] \in {<<"Males">>, <<"Females">>, <<"Persons">>}

WorkerTypes == {<<"Main">>, <<"Marginal">>}
Genders == {<<"Male">>, <<"Female">>, <<"Total">>}

\* C2 as stated: every row of the long table has Worker_Type in {Main, Marginal}
\* and Gender in {Male, Female, Total}.
C2_Original ==
  pc = "sidebar" =>
    \A r \in long_data : r.Worker_Type \in WorkerTypes /\ r.Gender \in Genders

\* C2 amended: a row melted from a column named
\* <Main_Workers|Marginal_Workers>-<area>-<Males|Females|Persons> has Worker_Type
\* in {Main, Marginal} and Gender in {Male, Female, Total}; in a row of any
\* other measure column an unrecognized worker-class or gender token is kept
\* as it is, and a gender token the name does not have is null.
C2_Amended ==
  pc = "sidebar" =>
    \A r \in long_data :
      LET parts == SplitHyphen(ColumnOf(r))
      IN /\ WellFormedName(ColumnOf(r)) =>
              r.Worker_Type \in WorkerTypes /\ r.Gender \in Genders
         /\ parts[1] \notin {MainPrefix, MarginalPrefix} => r.Worker_Type = parts[1]
         /\ Len(parts) < 3 => r.Gender = NoneStr
         /\ (Len(parts) >= 3 /\ parts[3] \notin {<<"Males">>, <<"Females">>, <<"Persons">>})
              => r.Gender = parts[3]

\* a long table with a row of a well-formed column whose gender token is
\* Persons, and a row of a column whose tokens are not recognized
C2_Witness ==
  /\ pc = "sidebar"
  /\ \E r \in long_data : WellFormedName(ColumnOf(r)) /\ r.Gender = <<"Total">>
  /\ \E r \in long_data : ~WellFormedName(ColumnOf(r))

----------------------------------------------------------------------------
\* Properties of the whole run (specification Spec)

\* positions of the script up to and including the emptiness test of line 126
GeographyPcs ==
  {"normalize", "classify", "melt", "split", "coerce", "dropna", "sidebar",
   "states", "districts", "state_filter", "district_filter", "empty_check"}

\* positions of the script once lines 119-124 have run
AfterGeography ==
  {"empty_check", "stopped", "worker_filters", "industry_filter", "percentage",
   "core_views", "use_case", "download", "done"}

\* positions at which the core views exist
AfterCoreViews == {"use_case", "download", "done"}

\* positions at which the use-case module has run
AfterUseCase == {"download", "done"}

\* the rows of the long table whose State is selected
StateFiltered == {r \in long_data : r.State \in selected_states}

\* C3: when no row of the long table has a selected State, the run stops at
\* line 128 and computes nothing after it: no worker-type, area, gender or
\* industry selection, no percentage, no view and no download.
C3_Halt ==
  (pc \notin GeographyPcs /\ StateFiltered = {}) =>
    /\ pc = "stopped"
    /\ filtered_data = {}
    /\ worker_type = NoneStr /\ area = NoneStr /\ gender = NoneStr
    /\ selected_clusters = {}
    /\ value_col = Unset
    /\ industry_df = {} /\ geo_df = {} /\ pivot_df = <<>>
    /\ usecase_rows = {} /\ usecase_df = {} /\ risk_df = {}
    /\ download = {}

\* a run stopped because no State of a table with rows is selected
C3_Witness ==
  /\ pc = "stopped"
  /\ long_data # {}
  /\ StateFiltered = {}

\* C4: each filter stage (state, district, worker type/area/gender, industry)
\* leaves a subset of the rows that entered it, each row with the values and
\* the Count it had, so the number of rows never grows.
C4_Narrowing ==
  [][/\ pc = "state_filter" =>
          /\ filtered_data' \subseteq long_data
          /\ Cardinality(filtered_data') <= Cardinality(long_data)
     /\ pc \in {"district_filter", "worker_filters", "industry_filter"} =>
          /\ filtered_data' \subseteq filtered_data
          /\ Cardinality(filtered_data') <= Cardinality(filtered_data)]_vars

\* the four filters have run, the district filter removed a row the state
\* filter had kept, the worker filters removed rows, and a row is left
C4_Witness ==
  /\ pc = "percentage"
  /\ filtered_data # {}
  /\ Truthy(selected_districts)
  /\ \E r \in StateFiltered : r.District \notin selected_districts.items
  /\ \E r \in StateFiltered :
       r.District \in selected_districts.items /\ r.Worker_Type # worker_type

\* the values of a view, summed
RECURSIVE ViewSum(_)
ViewSum(view) ==
  IF view = {} THEN Rat(0, 1)
  ELSE LET g == CHOOSE h \in view : TRUE
       IN IF IsNaN(g.value) THEN ViewSum(view \ {g})
          ELSE RatAdd(g.value, ViewSum(view \ {g}))

\* C5 as stated: the values of the Industry view sum to the sum of Count over
\* the filtered set, in every view option.
C5_Original ==
  pc \in AfterCoreViews =>
    RatEq(ViewSum(industry_df), Rat(SumCount(filtered_data), 1))

\* C5 amended: the values of the Industry view sum to the sum, over the
\* filtered set, of the column the view aggregates: Count when percentage mode
\* is off, Value when it is on.
C5_Amended ==
  pc \in AfterCoreViews =>
    /\ RatEq(ViewSum(industry_df), SumValue(filtered_data))
    /\ ~show_percentage =>
         RatEq(ViewSum(industry_df), Rat(SumCount(filtered_data), 1))

\* an Industry view in percentage mode whose one industry is summed from two
\* rows with Counts 2 and 3
C5_Witness ==
  /\ pc = "done"
  /\ show_percentage
  /\ Cardinality(industry_df) = 1
  /\ {r.Count.v : r \in filtered_data} = {2, 3}

\* positions at which the Value column exists in percentage mode
AfterPercentage == {"core_views", "use_case", "download", "done"}

\* C6 as stated: in percentage mode the Value column of a non-empty filtered
\* set sums to 100.
C6_Original ==
  (pc \in AfterPercentage /\ show_percentage /\ filtered_data # {}) =>
    RatEq(SumValue(filtered_data), Rat(100, 1))

\* C6 amended: in percentage mode, when the filtered set is non-empty and its
\* Counts do not sum to zero, the Value column sums to 100, each Value
\* being Count x 100 / (sum of Count over the filtered set).
C6_Amended ==
  (pc \in AfterPercentage /\ show_percentage /\ filtered_data # {}
     /\ SumCount(filtered_data) # 0) =>
    /\ RatEq(SumValue(filtered_data), Rat(100, 1))
    /\ \A r \in filtered_data :
         RatEq(r.Value, Rat(r.Count.v * 100, SumCount(filtered_data)))

\* percentage mode over two rows with Counts 2 and 3
C6_Witness ==
  /\ pc = "done"
  /\ show_percentage
  /\ {r.Count.v : r \in filtered_data} = {2, 3}

\* the dependency table is on display
DependencyShown == pc \in AfterUseCase /\ use_case = "Industry Dependency Risk"

\* Count of the filtered rows of one district, summed
DistrictCount(d) == SumCount({r \in filtered_data : r.District = d})

\* the Shares of the rows of one district of the dependency table, summed
RECURSIVE ShareSum(_, _)
ShareSum(dep, d) ==
  IF \A g \in dep : g.District # d THEN Rat(0, 1)
  ELSE LET g == CHOOSE h \in dep : h.District = d
       IN IF IsNaN(g.Share) THEN ShareSum(dep \ {g}, d)
          ELSE RatAdd(g.Share, ShareSum(dep \ {g}, d))

\* every retained row has Share > 0.6, and a row with Share 0.6 is not retained
RiskAboveThreshold ==
  /\ \A g \in risk_df :
       g \in usecase_df /\ 10 * g.Count > 6 * DistrictCount(g.District)
  /\ \A g \in usecase_df :
       10 * g.Count = 6 * DistrictCount(g.District) => g \notin risk_df

\* C7 as stated: the Shares of every District of the dependency table sum to
\* 1, and every retained row has Share > 0.6.
C7_Original ==
  DependencyShown =>
    /\ \A d \in {g.District : g \in usecase_df} :
         RatEq(ShareSum(usecase_df, d), Rat(1, 1))
    /\ RiskAboveThreshold

\* C7 amended: the Shares of every District of the dependency table whose
\* Counts do not sum to zero sum to 1, and every retained row has Share > 0.6
\* (a row with Share exactly 0.6 is not retained).
C7_Amended ==
  DependencyShown =>
    /\ \A d \in {g.District : g \in usecase_df} :
         DistrictCount(d) # 0 => RatEq(ShareSum(usecase_df, d), Rat(1, 1))
    /\ RiskAboveThreshold

\* a district with two industries, one of them with Share exactly 0.6
C7_Witness ==
  /\ DependencyShown
  /\ \E g \in usecase_df :
       /\ g.Count = 3
       /\ DistrictCount(g.District) = 5
       /\ g \notin risk_df

\* the investment table is on display
InvestmentShown == pc \in AfterUseCase /\ use_case = "Industrial Investment Planning"

C9_DistrictSelection ==
  pc \in AfterGeography =>
    /\ view_level = "District-wise" =>
         \A r \in filtered_data : r.District \in selected_districts.items
    /\ (view_level = "State-wise" /\ pc = "empty_check") =>
         filtered_data = StateFiltered

\* C10: the rows a use-case view is aggregated from all have their State in
\* the selected states and, when districts are selected, their District in the
\* selected districts.
C10_ViewsGeography ==
  pc \in AfterUseCase =>
    \A r \in usecase_rows :
      /\ r.State \in selected_states
      /\ Truthy(selected_districts) => r.District \in selected_districts.items

====
